---- MODULE Spec2Model ----
(***************************************************************************)
(* Model of wslgit (src/src/main.rs): a wrapper that forwards a git        *)
(* command line from Windows to `wsl git`, translating Windows paths in    *)
(* the arguments to WSL mount paths and, for some subcommands, translating *)
(* the mount paths in git's output back to drive-letter paths.            *)
(*                                                                         *)
(* A string is a sequence of one-character strings: "C:\a" is             *)
(* <<"C", ":", "\\", "a">>.                                                *)
(***************************************************************************)
EXTENDS Naturals, Sequences, FiniteSets

VARIABLES
    fs,               \* the names that exist, in every directory of the filesystem
    fn,               \* harness: the function applied last ("none" before any)
    input,            \* harness: the argument of the function under test
    output,           \* harness: its result
    pc,               \* main: the position in main()
    args,             \* main: env::args().skip(1)
    git_editor,       \* main: env::var("GIT_EDITOR"), an Option
    git_args,         \* main: git_args, later cmd_args
    child_editor,     \* main: GIT_EDITOR as set for the subprocess, an Option
    translate_output, \* main: the local translate_output
    child_stdio,      \* main: the subprocess's stdout: "none", "piped", "inherit"
    child_out,        \* main: the bytes the subprocess wrote to its stdout
    status,           \* main: the subprocess's exit status
    stdout,           \* main: the bytes on the wrapper's own stdout
    exit_code         \* main: the wrapper's exit code, NoCode while it runs

vars == <<fs, fn, input, output, pc, args, git_editor, git_args, child_editor,
          translate_output, child_stdio, child_out, status, stdout, exit_code>>

harnessVars == <<fn, input, output>>

mainVars == <<pc, args, git_editor, git_args, child_editor, translate_output,
              child_stdio, child_out, status, stdout, exit_code>>

----------------------------------------------------------------------------
(* Characters and strings *)

LowerLetters == <<"a","b","c","d","e","f","g","h","i","j","k","l","m",
                  "n","o","p","q","r","s","t","u","v","w","x","y","z">>

UpperLetters == <<"A","B","C","D","E","F","G","H","I","J","K","L","M",
                  "N","O","P","Q","R","S","T","U","V","W","X","Y","Z">>

IsAsciiAlphabetic(c) ==
    \E i \in 1..26 : c = LowerLetters[i] \/ c = UpperLetters[i]

ToAsciiUppercase(c) ==
    IF \E i \in 1..26 : c = LowerLetters[i]
    THEN UpperLetters[CHOOSE i \in 1..26 : c = LowerLetters[i]]
    ELSE c

ToLowercase(c) ==
    IF \E i \in 1..26 : c = UpperLetters[i]
    THEN LowerLetters[CHOOSE i \in 1..26 : c = UpperLetters[i]]
    ELSE c

\* the bytes the regex class \s matches with Unicode off (\v is not
\* expressible as a TLA+ string and is left out)
Whitespace == {" ", "\t", "\n", "\r", "\f"}

StartsWith(s, p) == Len(s) >= Len(p) /\ SubSeq(s, 1, Len(p)) = p

Contains(s, c) == \E i \in 1..Len(s) : s[i] = c

IndexOf(s, c) == CHOOSE i \in 1..Len(s) : s[i] = c /\ \A j \in 1..(i - 1) : s[j] # c

Drop(s, n) == SubSeq(s, n + 1, Len(s))

RECURSIVE Concat(_)
Concat(ss) == IF ss = <<>> THEN <<>> ELSE Head(ss) \o Concat(Tail(ss))

----------------------------------------------------------------------------
(* std::path on Windows, as far as translate_path_to_unix uses it *)

IsSepByte(c) == c \in {"\\", "/"}

\* in a verbatim path only the backslash separates
IsSep(c, verbatim) == IF verbatim THEN c = "\\" ELSE IsSepByte(c)

VerbatimMark == <<"\\", "\\", "?", "\\">>

\* Path::prefix: the kind of prefix, the drive byte (upper case, as
\* Prefix::Disk and Prefix::VerbatimDisk carry it) and the prefix's length.
\* Every prefix that starts with two separators and is not \\?\X: (UNC,
\* device namespace, other verbatim forms) is of kind "Other".
ParsePrefix(p) ==
    IF Len(p) >= 2 /\ IsSepByte(p[1]) /\ IsSepByte(p[2])
    THEN IF /\ StartsWith(p, VerbatimMark)
            /\ Len(p) >= 6
            /\ IsAsciiAlphabetic(p[5])
            /\ p[6] = ":"
            /\ (Len(p) = 6 \/ IsSepByte(p[7]))
         THEN [kind |-> "VerbatimDisk", drive |-> ToAsciiUppercase(p[5]), len |-> 6]
         ELSE [kind |-> "Other", drive |-> "", len |-> Len(p)]
    ELSE IF Len(p) >= 2 /\ IsAsciiAlphabetic(p[1]) /\ p[2] = ":"
         THEN [kind |-> "Disk", drive |-> ToAsciiUppercase(p[1]), len |-> 2]
         ELSE [kind |-> "None", drive |-> "", len |-> 0]

IsVerbatim(p) == ParsePrefix(p).kind = "VerbatimDisk"

HasPhysicalRoot(p) ==
    LET rest == Drop(p, ParsePrefix(p).len)
    IN  rest # <<>> /\ IsSep(rest[1], IsVerbatim(p))

HasRoot(p) ==
    HasPhysicalRoot(p) \/ ParsePrefix(p).kind \in {"VerbatimDisk", "Other"}

\* Path::is_absolute on Windows: a prefix and a root
IsAbsolute(p) == HasRoot(p) /\ ParsePrefix(p).kind # "None"

\* the text between separators, empty pieces included
RECURSIVE SplitSegments(_, _, _)
SplitSegments(s, verbatim, cur) ==
    IF s = <<>> THEN <<cur>>
    ELSE IF IsSep(Head(s), verbatim)
         THEN <<cur>> \o SplitSegments(Tail(s), verbatim, <<>>)
         ELSE SplitSegments(Tail(s), verbatim, Append(cur, Head(s)))

\* Path::components: the prefix, the root, then the segments; an empty
\* segment is skipped, and so is "." unless the path is verbatim or the "."
\* leads a path with neither prefix nor root
Components(p) ==
    LET pre      == ParsePrefix(p)
        verbatim == pre.kind = "VerbatimDisk"
        segs     == SplitSegments(Drop(p, pre.len), verbatim, <<>>)
        Kept(i)  == /\ segs[i] # <<>>
                    /\ \/ segs[i] # <<".">>
                       \/ verbatim
                       \/ i = 1 /\ pre.kind = "None"
        KindOf(s) == IF s = <<".">> THEN "CurDir"
                     ELSE IF s = <<".", ".">> THEN "ParentDir"
                     ELSE "Normal"
        Body[i \in 0..Len(segs)] ==
            IF i = 0 THEN <<>>
            ELSE IF Kept(i)
                 THEN Append(Body[i - 1],
                             [kind |-> KindOf(segs[i]), text |-> segs[i],
                              prefix |-> "None", drive |-> ""])
                 ELSE Body[i - 1]
    IN  (IF pre.kind # "None"
         THEN <<[kind |-> "Prefix", text |-> SubSeq(p, 1, pre.len),
                 prefix |-> pre.kind, drive |-> pre.drive]>>
         ELSE <<>>)
        \o (IF HasRoot(p) /\ pre.kind # "Other"
            THEN <<[kind |-> "RootDir", text |-> <<"\\">>,
                    prefix |-> "None", drive |-> ""]>>
            ELSE <<>>)
        \o (IF pre.kind = "Other" THEN <<>> ELSE Body[Len(segs)])

\* Path::exists. The filesystem is the set fs of names, each present in
\* every directory: a path exists when it is not empty and each of its
\* name segments is in fs ("." and ".." always resolve).
Exists(p, fsys) ==
    /\ p # <<>>
    /\ ParsePrefix(p).kind # "Other"
    /\ LET cs == Components(p)
       IN  \A i \in 1..Len(cs) : cs[i].kind = "Normal" => cs[i].text \in fsys

----------------------------------------------------------------------------
(* get_drive_letter, get_prefix_for_drive, translate_path_to_unix *)

\* an Option<String>
None == [some |-> FALSE, val |-> <<>>]
Some(v) == [some |-> TRUE, val |-> v]

\* mutant: the drive letter is not lower-cased
GetDriveLetter_KeepCase(c) ==
    IF c.prefix \in {"VerbatimDisk", "Disk"} THEN Some(<<c.drive>>) ELSE None

GetDriveLetter(c) ==
    IF c.prefix \in {"VerbatimDisk", "Disk"}
    THEN Some(<<ToLowercase(c.drive)>>)
    ELSE None

GetPrefixForDrive(drive) == <<"/", "m", "n", "t", "/">> \o drive

\* mutant: the argument is split at its last "="
SplitArgument_LastEq(argument) ==
    IF StartsWith(argument, <<"-", "-">>) /\ Contains(argument, "=")
    THEN LET last == CHOOSE i \in 1..Len(argument) :
                         /\ argument[i] = "="
                         /\ \A j \in (i + 1)..Len(argument) : argument[j] # "="
         IN  [argname |-> SubSeq(argument, 1, last), arg |-> Drop(argument, last)]
    ELSE [argname |-> <<>>, arg |-> argument]

\* the (argname, arg) pair of lines 34-42
SplitArgument(argument) ==
    IF StartsWith(argument, <<"-", "-">>) /\ Contains(argument, "=")
    THEN [argname |-> SubSeq(argument, 1, IndexOf(argument, "=")),
          arg     |-> Drop(argument, IndexOf(argument, "="))]
    ELSE [argname |-> <<>>, arg |-> argument]

\* the closure folded over the components, lines 46-68
FoldStep(acc, c) ==
    IF c.kind = "Prefix" THEN acc \o GetPrefixForDrive(GetDriveLetter(c).val)
    ELSE IF c.kind = "RootDir" THEN acc
    ELSE (IF acc # <<>> /\ acc[Len(acc)] # "/" THEN Append(acc, "/") ELSE acc)
         \o c.text

RECURSIVE FoldComponents(_, _)
FoldComponents(acc, cs) ==
    IF cs = <<>> THEN acc
    ELSE FoldComponents(FoldStep(acc, Head(cs)), Tail(cs))

\* mutant: the whole argument, not the value after "=", is probed
IsPathArgument_WholeArgument(argument, fsys) ==
    IsAbsolute(argument) \/ Exists(argument, fsys)

\* whether the argument is taken for a path (line 44)
IsPathArgument(argument, fsys) ==
    LET arg == SplitArgument(argument).arg
    IN  IsAbsolute(arg) \/ Exists(arg, fsys)

\* the expect of lines 49-51 fails: a prefix that names no drive
TranslatePanics(argument, fsys) ==
    LET cs == Components(SplitArgument(argument).arg)
    IN  /\ IsPathArgument(argument, fsys)
        /\ \E i \in 1..Len(cs) :
               cs[i].kind = "Prefix" /\ ~GetDriveLetter(cs[i]).some

\* the value returned when no expect fails
TranslatePathToUnix(argument, fsys) ==
    LET parts == SplitArgument(argument)
    IN  IF IsPathArgument(argument, fsys)
        THEN parts.argname \o FoldComponents(<<>>, Components(parts.arg))
        ELSE argument

----------------------------------------------------------------------------
(* translate_path_to_win *)

\* The regex is /mnt/, one ASCII letter (the drive), then a slash and a
\* greedy run of non-whitespace bytes (the path); replace_all puts the
\* drive, a colon and the path for every match, scanning left to right.

MntMark == <<"/", "m", "n", "t", "/">>

\* mutant: the slash after the drive letter is not required
MatchAt_NoSlash(s, i) ==
    /\ i + 6 <= Len(s)
    /\ SubSeq(s, i, i + 4) = MntMark
    /\ IsAsciiAlphabetic(s[i + 5])
    /\ s[i + 6] \notin Whitespace

\* the regex matches at position i: /mnt/, one letter, a slash
MatchAt(s, i) ==
    /\ i + 6 <= Len(s)
    /\ SubSeq(s, i, i + 4) = MntMark
    /\ IsAsciiAlphabetic(s[i + 5])
    /\ s[i + 6] = "/"

\* the last position of the match that starts at i: \S* is greedy
MatchEnd(s, i) ==
    CHOOSE e \in (i + 6)..Len(s) :
        /\ \A k \in (i + 7)..e : s[k] \notin Whitespace
        /\ (e = Len(s) \/ s[e + 1] \in Whitespace)

\* mutant: the replacement leaves the colon out
RECURSIVE ReplaceAllFrom_NoColon(_, _)
ReplaceAllFrom_NoColon(s, i) ==
    IF i > Len(s) THEN <<>>
    ELSE IF i + 6 <= Len(s) /\ SubSeq(s, i, i + 4) = MntMark
            /\ IsAsciiAlphabetic(s[i + 5]) /\ s[i + 6] = "/"
         THEN <<s[i + 5]>> \o ReplaceAllFrom_NoColon(s, i + 6)
         ELSE <<s[i]>> \o ReplaceAllFrom_NoColon(s, i + 1)

\* replace_all from position i on: the leftmost match is replaced and the
\* scan resumes after it; a byte no match starts at is copied
RECURSIVE ReplaceAllFrom(_, _)
ReplaceAllFrom(s, i) ==
    IF i > Len(s) THEN <<>>
    ELSE IF MatchAt(s, i)
         THEN <<s[i + 5], ":">> \o SubSeq(s, i + 6, MatchEnd(s, i))
              \o ReplaceAllFrom(s, MatchEnd(s, i) + 1)
         ELSE <<s[i]>> \o ReplaceAllFrom(s, i + 1)

TranslatePathToWin(line) == ReplaceAllFrom(line, 1)

----------------------------------------------------------------------------
(* shell_escape, unquote *)

\* str::replace("\n", "$'\n'"): the Rust literal holds a newline between
\* the quotes
RECURSIVE ReplaceNewlines(_)
ReplaceNewlines(s) ==
    IF s = <<>> THEN <<>>
    ELSE (IF Head(s) = "\n" THEN <<"$", "'", "\n", "'">> ELSE <<Head(s)>>)
         \o ReplaceNewlines(Tail(s))

ShellEscape(arg) ==
    IF Contains(arg, " ")
    THEN <<"\"">> \o arg \o <<"\"">>
    ELSE ReplaceNewlines(arg)

\* s.get(1..len-1) is None for the one-character string
Unquote(s) ==
    IF s # <<>> /\ s[1] = "\""
    THEN IF Len(s) >= 2 THEN SubSeq(s, 2, Len(s) - 1) ELSE s
    ELSE s

----------------------------------------------------------------------------
(* resolve_actual_win_path, translate_git_editor *)

\* the current directory, a disk path
Cwd == <<"C", ":", "\\", "w">>

\* the position in p where the file stem of its file name ends, 0 when the
\* path has no file name (Path::file_stem: the last component, when it is
\* a normal one, up to its last dot unless that dot leads the name)
FileStemEnd(p) ==
    LET pre      == ParsePrefix(p)
        verbatim == pre.kind = "VerbatimDisk"
        segs     == SplitSegments(Drop(p, pre.len), verbatim, <<>>)
        Kept(i)  == /\ segs[i] # <<>>
                    /\ \/ segs[i] # <<".">>
                       \/ verbatim
                       \/ i = 1 /\ pre.kind = "None"
        kept     == {i \in 1..Len(segs) : Kept(i)}
        last     == CHOOSE i \in kept : \A j \in kept : j <= i
        Start[i \in 1..Len(segs)] ==
            IF i = 1 THEN pre.len ELSE Start[i - 1] + Len(segs[i - 1]) + 1
        name     == segs[last]
        dots     == {i \in 1..Len(name) : name[i] = "."}
        lastDot  == CHOOSE i \in dots : \A j \in dots : j <= i
    IN  IF pre.kind = "Other" \/ kept = {} THEN 0
        ELSE IF name = <<".">> \/ name = <<".", ".">> THEN 0
        ELSE IF dots = {} \/ lastDot = 1 THEN Start[last] + Len(name)
        ELSE Start[last] + lastDot - 1

\* Path::with_extension
WithExtension(p, ext) ==
    IF FileStemEnd(p) = 0 THEN p
    ELSE SubSeq(p, 1, FileStemEnd(p))
         \o (IF ext = <<>> THEN <<>> ELSE <<".">> \o ext)

Extensions == << <<>>, <<"C", "M", "D">>, <<"E", "X", "E">> >>

Candidate(win_path, i) == WithExtension(win_path, Extensions[i])

\* the candidates the lazy iterator produces: up to the first that exists
CandidatesTried(win_path, fsys) ==
    IF \E i \in 1..3 : Exists(Candidate(win_path, i), fsys)
    THEN CHOOSE n \in 1..3 :
             /\ Exists(Candidate(win_path, n), fsys)
             /\ \A j \in 1..(n - 1) : ~Exists(Candidate(win_path, j), fsys)
    ELSE 3

\* what the println! of line 108 writes to stdout during the lookup
RECURSIVE ResolvePrintsUpTo(_, _)
ResolvePrintsUpTo(win_path, n) ==
    IF n = 0 THEN <<>>
    ELSE ResolvePrintsUpTo(win_path, n - 1)
         \o <<"p", "a", "t", "h", " ">> \o Candidate(win_path, n) \o <<"\n">>

ResolvePrints(win_path, fsys) ==
    ResolvePrintsUpTo(win_path, CandidatesTried(win_path, fsys))

\* the segments of an existing path, "." dropped and ".." resolved
RECURSIVE ResolveDots(_, _)
ResolveDots(acc, cs) ==
    IF cs = <<>> THEN acc
    ELSE IF Head(cs).kind = "Normal"
         THEN ResolveDots(Append(acc, Head(cs).text), Tail(cs))
    ELSE IF Head(cs).kind = "ParentDir" /\ acc # <<>>
         THEN ResolveDots(SubSeq(acc, 1, Len(acc) - 1), Tail(cs))
    ELSE ResolveDots(acc, Tail(cs))

RECURSIVE JoinBackslash(_)
JoinBackslash(segs) ==
    IF segs = <<>> THEN <<>>
    ELSE <<"\\">> \o Head(segs) \o JoinBackslash(Tail(segs))

\* Path::canonicalize of an existing path: the verbatim form \\?\X:\...,
\* a path without a drive or a root taken from the current directory
Canonicalize(p) ==
    LET pre   == ParsePrefix(p)
        drive == IF pre.kind = "None" THEN Cwd[1] ELSE pre.drive
        base  == IF HasRoot(p) \/ drive # Cwd[1] THEN <<>> ELSE Components(Cwd)
    IN  VerbatimMark \o <<drive, ":">>
        \o (LET segs == ResolveDots(<<>>, base \o Components(p))
            IN  IF segs = <<>> THEN <<"\\">> ELSE JoinBackslash(segs))

ResolveActualWinPath(win_path, fsys) ==
    IF \E i \in 1..3 : Exists(Candidate(win_path, i), fsys)
    THEN Some(Canonicalize(Candidate(win_path, CandidatesTried(win_path, fsys))))
    ELSE None

\* editor.splitn(2, " ")
EditorParts(editor) ==
    IF Contains(editor, " ")
    THEN <<SubSeq(editor, 1, IndexOf(editor, " ") - 1),
           Drop(editor, IndexOf(editor, " "))>>
    ELSE <<editor>>

\* editor_parts[1] is out of bounds (line 127)
EditorPanics(editor) == Len(EditorParts(editor)) < 2

\* unquoted_editor_cmd (line 119)
UnquotedEditorCmd(editor) == Unquote(EditorParts(editor)[1])

\* what translate_git_editor prints before it returns or panics
EditorPrints(editor, fsys) == ResolvePrints(UnquotedEditorCmd(editor), fsys)

\* unix_path (lines 121-123)
EditorUnixPath(editor, fsys) ==
    IF ResolveActualWinPath(UnquotedEditorCmd(editor), fsys).some
    THEN TranslatePathToUnix(
             ResolveActualWinPath(UnquotedEditorCmd(editor), fsys).val, fsys)
    ELSE EditorParts(editor)[1]

\* the value returned when the editor value holds a space
TranslateGitEditor(editor, fsys) ==
    EditorUnixPath(editor, fsys) \o <<" ">> \o EditorParts(editor)[2]

----------------------------------------------------------------------------
(* main *)

\* an Option<i32>
NoCode == [some |-> FALSE, val |-> 0]
Code(c) == [some |-> TRUE, val |-> c]

\* an ExitStatus: not yet known, ended with a code, or ended by a signal
\* (ExitStatus::code is then None)
NoStatus    == [ended |-> FALSE, code |-> NoCode]
Exited(c)   == [ended |-> TRUE, code |-> Code(c)]
Signalled   == [ended |-> TRUE, code |-> NoCode]

\* the exit code of a Rust process whose main thread panics
PanicCode == 101

RevParse == <<"r", "e", "v", "-", "p", "a", "r", "s", "e">>
Remote   == <<"r", "e", "m", "o", "t", "e">>

TRANSLATED_CMDS == <<RevParse, Remote>>

\* git_args after lines 134-139
TranslatedArgs(as, fsys) ==
    <<<<"g", "i", "t">>>> \o [i \in 1..Len(as) |-> TranslatePathToUnix(as[i], fsys)]

\* mutant: only the first argument, the subcommand slot, is compared
TranslateOutputFor_FirstOnly(as) ==
    Len(as) >= 1 /\ \E t \in 1..Len(TRANSLATED_CMDS) : TRANSLATED_CMDS[t] = as[1]

\* lines 175-176
TranslateOutputFor(as) ==
    \E i \in 1..Len(as) : \E t \in 1..Len(TRANSLATED_CMDS) : TRANSLATED_CMDS[t] = as[i]

Panic ==
    /\ pc' = "panicked"
    /\ exit_code' = Code(PanicCode)

\* lines 132-142: the current directory and every argument are translated
TranslateArgs ==
    /\ pc = "start"
    /\ IF TranslatePanics(Cwd, fs) \/ \E i \in 1..Len(args) : TranslatePanics(args[i], fs)
       THEN Panic /\ UNCHANGED git_args
       ELSE /\ git_args' = TranslatedArgs(args, fs)
            /\ pc' = "editor"
            /\ UNCHANGED exit_code
    /\ UNCHANGED <<fs, harnessVars, args, git_editor, child_editor,
                   translate_output, child_stdio, child_out, status, stdout>>

\* lines 165-170: GIT_EDITOR, when set, is translated for the subprocess
SetupEditor ==
    /\ pc = "editor"
    /\ IF git_editor.some
       THEN /\ stdout' = stdout \o EditorPrints(git_editor.val, fs)
            /\ IF EditorPanics(git_editor.val)
               THEN Panic /\ UNCHANGED child_editor
               ELSE /\ child_editor' = Some(TranslateGitEditor(git_editor.val, fs))
                    /\ pc' = "decide"
                    /\ UNCHANGED exit_code
       ELSE /\ pc' = "decide"
            /\ UNCHANGED <<stdout, child_editor, exit_code>>
    /\ UNCHANGED <<fs, harnessVars, args, git_editor, git_args,
                   translate_output, child_stdio, child_out, status>>

\* lines 173-176
DecideTranslateOutput ==
    /\ pc = "decide"
    /\ translate_output' = TranslateOutputFor(args)
    /\ pc' = "spawn"
    /\ UNCHANGED <<fs, harnessVars, args, git_editor, git_args, child_editor,
                   child_stdio, child_out, status, stdout, exit_code>>

\* lines 180-182: the subprocess starts with its stdout piped
SpawnPiped ==
    /\ pc = "spawn"
    /\ translate_output
    /\ child_stdio' = "piped"
    /\ pc' = "running"
    /\ UNCHANGED <<fs, harnessVars, args, git_editor, git_args, child_editor,
                   translate_output, child_out, status, stdout, exit_code>>

\* lines 196-199: the subprocess starts on the wrapper's own stdout
SpawnInherit ==
    /\ pc = "spawn"
    /\ ~translate_output
    /\ child_stdio' = "inherit"
    /\ pc' = "running"
    /\ UNCHANGED <<fs, harnessVars, args, git_editor, git_args, child_editor,
                   translate_output, child_out, status, stdout, exit_code>>

\* the expect of line 182 or 199 fails: the subprocess cannot be started
SpawnFails ==
    /\ pc = "spawn"
    /\ Panic
    /\ UNCHANGED <<fs, harnessVars, args, git_editor, git_args, child_editor,
                   translate_output, child_stdio, child_out, status, stdout>>

\* the expect of line 185 or 199 fails: waiting for the subprocess fails
WaitFails ==
    /\ pc = "running"
    /\ Panic
    /\ UNCHANGED <<fs, harnessVars, args, git_editor, git_args, child_editor,
                   translate_output, child_stdio, child_out, status, stdout>>

\* what the subprocess may write, and how it may end
ChildOutputs ==
    { <<>>,
      <<"/", "m", "n", "t", "/", "c", "/", "w", "\n">>,
      <<"o", " ", "/", "m", "n", "t", "/", "D", "/", "a", " ", "b", "\n">> }

ChildStatuses == {Exited(0), Exited(1), Exited(128), Signalled}

\* the subprocess writes o and ends with status st; wait_with_output
\* (lines 183-187) or status (lines 196-198) returns
ChildExits ==
    /\ pc = "running"
    /\ \E o \in ChildOutputs, st \in ChildStatuses :
           /\ child_out' = o
           /\ status' = st
           /\ IF child_stdio = "inherit"
              THEN stdout' = stdout \o o /\ pc' = "forward"
              ELSE stdout' = stdout /\ pc' = "exited"
    /\ UNCHANGED <<fs, harnessVars, args, git_editor, git_args, child_editor,
                   translate_output, child_stdio, exit_code>>

\* lines 188-192: the captured output is translated and written
WriteOutput ==
    /\ pc = "exited"
    /\ stdout' = stdout \o TranslatePathToWin(child_out)
    /\ pc' = "forward"
    /\ UNCHANGED <<fs, harnessVars, args, git_editor, git_args, child_editor,
                   translate_output, child_stdio, child_out, status, exit_code>>

\* the expect of line 191 or 192 fails: the wrapper's stdout cannot be written
WriteFails ==
    /\ pc = "exited"
    /\ Panic
    /\ UNCHANGED <<fs, harnessVars, args, git_editor, git_args, child_editor,
                   translate_output, child_stdio, child_out, status, stdout>>

\* mutant: main returns without forwarding the code
ForwardExit_NotForwarded ==
    /\ pc = "forward"
    /\ exit_code' = Code(0)
    /\ pc' = "done"
    /\ UNCHANGED <<fs, harnessVars, args, git_editor, git_args, child_editor,
                   translate_output, child_stdio, child_out, status, stdout>>

\* lines 202-205: the exit code is forwarded; without one main returns
ForwardExit ==
    /\ pc = "forward"
    /\ exit_code' = IF status.code.some THEN status.code ELSE Code(0)
    /\ pc' = "done"
    /\ UNCHANGED <<fs, harnessVars, args, git_editor, git_args, child_editor,
                   translate_output, child_stdio, child_out, status, stdout>>

----------------------------------------------------------------------------
(* The functions on their own: each is applied to an input drawn from a
   bounded set, under a filesystem drawn from the subsets of a set of names *)

MainIdle ==
    /\ pc = "idle"
    /\ args = <<>>
    /\ git_editor = None
    /\ git_args = <<>>
    /\ child_editor = None
    /\ translate_output = FALSE
    /\ child_stdio = "none"
    /\ child_out = <<>>
    /\ status = NoStatus
    /\ stdout = <<>>
    /\ exit_code = NoCode

\* all sequences of at most n elements of S
SeqsUpTo(S, n) == UNION {[1..k -> S] : k \in 0..n}

RECURSIVE JoinWith(_, _)
JoinWith(segs, sep) ==
    IF segs = <<>> THEN <<>>
    ELSE IF Len(segs) = 1 THEN Head(segs)
    ELSE Head(segs) \o sep \o JoinWith(Tail(segs), sep)

CallTranslatePathToUnix ==
    /\ fn = "none"
    /\ IF TranslatePanics(input, fs)
       THEN fn' = "panicked" /\ output' = output
       ELSE fn' = "translate_path_to_unix" /\ output' = TranslatePathToUnix(input, fs)
    /\ UNCHANGED <<fs, input, mainVars>>

CallTranslatePathToWin ==
    /\ fn = "none"
    /\ fn' = "translate_path_to_win"
    /\ output' = TranslatePathToWin(input)
    /\ UNCHANGED <<fs, input, mainVars>>

\* translate_path_to_win applied to what translate_path_to_unix returned
CallTranslatePathToWinOnOutput ==
    /\ fn = "translate_path_to_unix"
    /\ fn' = "round_trip"
    /\ output' = TranslatePathToWin(output)
    /\ UNCHANGED <<fs, input, mainVars>>

CallShellEscape ==
    /\ fn = "none"
    /\ fn' = "shell_escape"
    /\ output' = ShellEscape(input)
    /\ UNCHANGED <<fs, input, mainVars>>

CallTranslateGitEditor ==
    /\ fn = "none"
    /\ IF EditorPanics(input)
       THEN fn' = "panicked" /\ output' = output
       ELSE fn' = "translate_git_editor" /\ output' = TranslateGitEditor(input, fs)
    /\ UNCHANGED <<fs, input, mainVars>>

----------------------------------------------------------------------------
(* translate_path_to_unix on its own *)

MaxSegs == 2

UnixSegs ==
    { <<"a">>, <<"a", " ", "b">>, <<".">>, <<".", ".">>,
      <<"-", "-", "f", "=", "a">> }

UnixNames == UnixSegs \ { <<".">>, <<".", ".">> }

UnixPrefixes == { <<>>, <<"c", ":">>, <<"D", ":">> }

UncPath == <<"\\", "\\", "s", "\\", "h", "\\", "a">>

UnixValues ==
    { pre \o root \o JoinWith(segs, <<"\\">>) :
        pre \in UnixPrefixes, root \in {<<>>, <<"\\">>},
        segs \in SeqsUpTo(UnixSegs, MaxSegs) }
    \cup {UncPath}

UnixFlags == { <<>>, <<"-", "-", "f", "=">>, <<"-", "f", "=">> }

UnixArguments == { flag \o v : flag \in UnixFlags, v \in UnixValues }

InitUnix ==
    /\ input \in UnixArguments
    /\ fs \in SUBSET UnixNames
    /\ fn = "none"
    /\ output = <<>>
    /\ MainIdle

NextUnix == CallTranslatePathToUnix

SpecUnix == InitUnix /\ [][NextUnix]_vars

----------------------------------------------------------------------------
(* Claims about translate_path_to_unix *)

\* the pieces of s between occurrences of the character c
RECURSIVE SplitOn(_, _, _)
SplitOn(s, c, cur) ==
    IF s = <<>> THEN <<cur>>
    ELSE IF Head(s) = c THEN <<cur>> \o SplitOn(Tail(s), c, <<>>)
    ELSE SplitOn(Tail(s), c, Append(cur, Head(s)))

\* an argument of the form L:\s1\...\sn
DriveLetterPath(a) ==
    Len(a) >= 3 /\ IsAsciiAlphabetic(a[1]) /\ a[2] = ":" /\ a[3] = "\\"

\* its segments s1..sn
SegmentsOf(a) == IF Len(a) = 3 THEN <<>> ELSE SplitOn(Drop(a, 3), "\\", <<>>)

\* an argument with no drive prefix and no other prefix
NoDrivePath(a) ==
    /\ ~(Len(a) >= 2 /\ IsAsciiAlphabetic(a[1]) /\ a[2] = ":")
    /\ ~(Len(a) >= 2 /\ a[1] \in {"\\", "/"} /\ a[2] \in {"\\", "/"})

\* the --name=value shape
FlagShape(a) ==
    Len(a) >= 2 /\ a[1] = "-" /\ a[2] = "-" /\ \E i \in 1..Len(a) : a[i] = "="

\* segs without the segments in dropped; with keepFirst, a first segment
\* that is not empty stays
KeepSegs(segs, dropped, keepFirst) ==
    LET Sel[i \in 0..Len(segs)] ==
            IF i = 0 THEN <<>>
            ELSE IF \/ segs[i] \notin dropped
                    \/ keepFirst /\ i = 1 /\ segs[i] # <<>>
                 THEN Append(Sel[i - 1], segs[i])
                 ELSE Sel[i - 1]
    IN  Sel[Len(segs)]

\* "/" + s for each segment, in order
SlashEach(segs) == Concat([i \in 1..Len(segs) |-> <<"/">> \o segs[i]])

MountPath(letter, segs) ==
    <<"/", "m", "n", "t", "/", ToLowercase(letter)>> \o SlashEach(segs)

\* C1 as stated: for an absolute drive-letter path L:\s1\...\sn the result
\* is /mnt/ + lowercase(L) + "/" + si for every segment si in order; for an
\* existing path with no drive prefix the result is its segments joined by "/".
C1_AsStated ==
    fn = "translate_path_to_unix" =>
        /\ DriveLetterPath(input) =>
               output = MountPath(input[1], SegmentsOf(input))
        /\ NoDrivePath(input) /\ Exists(input, fs) =>
               output = JoinWith(KeepSegs(SplitOn(input, "\\", <<>>), {<<>>}, FALSE),
                                 <<"/">>)

\* C1, amended: for an absolute drive-letter path L:\s1\...\sn the result is
\* /mnt/ + lowercase(L) + "/" + si for every segment si other than ".", in
\* order (a "." segment is dropped); for an existing path with no drive prefix
\* that is not of the --name=value shape the result is its segments joined by
\* single "/", a "." segment kept only where it begins the path.
C1_DriveAndRelativePaths ==
    fn = "translate_path_to_unix" =>
        /\ DriveLetterPath(input) =>
               output = MountPath(input[1],
                                  KeepSegs(SegmentsOf(input), {<<".">>}, FALSE))
        /\ NoDrivePath(input) /\ ~FlagShape(input) /\ Exists(input, fs) =>
               output = JoinWith(KeepSegs(SplitOn(input, "\\", <<>>),
                                          {<<>>, <<".">>}, TRUE),
                                 <<"/">>)

\* a path on an upper-case drive with two segments, one holding a space,
\* was translated
C1_Witness ==
    /\ fn = "translate_path_to_unix"
    /\ DriveLetterPath(input)
    /\ input[1] = "D"
    /\ Len(SegmentsOf(input)) >= 2
    /\ Contains(input, " ")
    /\ StartsWith(output, <<"/", "m", "n", "t", "/", "d", "/">>)

\* the value translate_path_to_unix inspects
InspectedValue(a) == IF FlagShape(a) THEN Drop(a, IndexOf(a, "=")) ELSE a

\* C3: when the inspected value (the text after the first "=" of an argument
\* that starts with "--" and contains "=", otherwise the whole argument) is
\* neither absolute nor existing, the whole argument is returned unchanged.
C3_NonPathUnchanged ==
    fn \in {"translate_path_to_unix", "panicked"} =>
        (~IsAbsolute(InspectedValue(input)) /\ ~Exists(InspectedValue(input), fs) =>
            fn = "translate_path_to_unix" /\ output = input)

\* a --name=value argument whose value holds a backslash and does not exist
\* came back as given; so did the empty argument
C3_Witness ==
    /\ fn = "translate_path_to_unix"
    /\ FlagShape(input)
    /\ Contains(InspectedValue(input), "\\")
    /\ ~IsAbsolute(InspectedValue(input))
    /\ ~Exists(InspectedValue(input), fs)
    /\ output = input

\* C4 as stated: for --name=V with V absolute or existing,
\* toPosix("--name=" + V) = "--name=" + toPosix(V), split at the first "=".
C4_AsStated ==
    fn = "translate_path_to_unix" /\ FlagShape(input) =>
        LET V == Drop(input, IndexOf(input, "="))
        IN  (IsAbsolute(V) \/ Exists(V, fs)) =>
                output = SubSeq(input, 1, IndexOf(input, "="))
                         \o TranslatePathToUnix(V, fs)

\* C4, amended: the same, for a value V that is not itself of the
\* --name=value shape (such a V alone would be split again at its own "=").
C4_FlagPrefixKept ==
    fn = "translate_path_to_unix" /\ FlagShape(input) =>
        LET V == Drop(input, IndexOf(input, "="))
        IN  (IsAbsolute(V) \/ Exists(V, fs)) /\ ~FlagShape(V) =>
                output = SubSeq(input, 1, IndexOf(input, "="))
                         \o TranslatePathToUnix(V, fs)

\* a --f=V argument was translated whose value V is an existing relative
\* path that itself holds an "=" and a backslash
C4_Witness ==
    /\ fn = "translate_path_to_unix"
    /\ FlagShape(input)
    /\ LET V == Drop(input, IndexOf(input, "="))
       IN  /\ ~FlagShape(V)
           /\ Contains(V, "=")
           /\ Contains(V, "\\")
           /\ Exists(V, fs)
           /\ output # input

----------------------------------------------------------------------------
(* translate_path_to_win on its own *)

MaxChunks == 3

WinChunks ==
    { <<"/", "m", "n", "t", "/", "c", "/">>,
      <<"/", "m", "n", "t", "/", "D">>,
      <<"/", "m", "n", "t", "/">>,
      <<"/">>, <<"x">>, <<" ">>, <<"\n">> }

WinTexts == { Concat(cs) : cs \in SeqsUpTo(WinChunks, MaxChunks) }

InitWin ==
    /\ input \in WinTexts
    /\ fs = {}
    /\ fn = "none"
    /\ output = <<>>
    /\ MainIdle

NextWin == CallTranslatePathToWin

SpecWin == InitWin /\ [][NextWin]_vars

\* "/mnt/" + one ASCII letter + "/" occurs in s at position i
OccursAt(s, i) ==
    /\ i + 6 <= Len(s)
    /\ s[i] = "/" /\ s[i + 1] = "m" /\ s[i + 2] = "n" /\ s[i + 3] = "t"
    /\ s[i + 4] = "/"
    /\ IsAsciiAlphabetic(s[i + 5])
    /\ s[i + 6] = "/"

\* a maximal run of non-whitespace bytes, rewritten: an occurrence is
\* followed by non-whitespace up to the end of the run, so the leftmost
\* occurrence of the run is the one matched, and it takes the rest of the run
RewriteRun(t) ==
    IF \E i \in 1..Len(t) : OccursAt(t, i)
    THEN LET i == CHOOSE k \in 1..Len(t) :
                      OccursAt(t, k) /\ \A j \in 1..(k - 1) : ~OccursAt(t, j)
         IN  SubSeq(t, 1, i - 1) \o <<t[i + 5], ":">> \o Drop(t, i + 5)
    ELSE t

\* the text rewritten run by run, the whitespace between the runs kept
RECURSIVE RewriteRuns(_, _)
RewriteRuns(s, run) ==
    IF s = <<>> THEN RewriteRun(run)
    ELSE IF Head(s) \in Whitespace
         THEN RewriteRun(run) \o <<Head(s)>> \o RewriteRuns(Tail(s), <<>>)
         ELSE RewriteRuns(Tail(s), Append(run, Head(s)))

\* C2: each non-overlapping occurrence of /mnt/ + letter + / + non-whitespace
\* run is replaced by letter + ":" + the same /... run and every other byte is
\* kept in order; an input with no occurrence is returned identical; and each
\* line of a multi-line input is rewritten independently.
C2_ReverseTranslation ==
    fn = "translate_path_to_win" =>
        /\ output = RewriteRuns(input, <<>>)
        /\ (~\E i \in 1..Len(input) : OccursAt(input, i)) => output = input
        /\ LET lines == SplitOn(input, "\n", <<>>)
           IN  output = JoinWith([i \in 1..Len(lines) |-> TranslatePathToWin(lines[i])],
                                 <<"\n">>)

\* a two-line text with an occurrence on each line was rewritten
C2_Witness ==
    /\ fn = "translate_path_to_win"
    /\ input = <<"/", "m", "n", "t", "/", "c", "/", "\n",
                 "/", "m", "n", "t", "/", "c", "/">>
    /\ output = <<"c", ":", "/", "\n", "c", ":", "/">>

----------------------------------------------------------------------------
(* The round trip: translate_path_to_unix, then translate_path_to_win *)

MaxSuffix == 3

RoundSegs == { <<"a">>, <<"a", " ", "b">>, <<"m", "n", "t", "/", "d">>, <<".">> }

RoundDrives == { "c", "D" }

RoundPaths ==
    { <<d, ":", "\\">> \o JoinWith(segs, <<"\\">>) :
        d \in RoundDrives, segs \in SeqsUpTo(RoundSegs, MaxSuffix) }

InitRound ==
    /\ input \in RoundPaths
    /\ fs = {}
    /\ fn = "none"
    /\ output = <<>>
    /\ MainIdle

NextRound == CallTranslatePathToUnix \/ CallTranslatePathToWinOnOutput

SpecRound == InitRound /\ [][NextRound]_vars

\* s with every backslash turned into a forward slash
ForwardSlashes(s) == [i \in 1..Len(s) |-> IF s[i] = "\\" THEN "/" ELSE s[i]]

\* the suffix of a drive-letter path as "/"-led segments, "." segments and
\* empty pieces (between "/" and "\") dropped
NormalSuffix(a) ==
    SlashEach(KeepSegs(SplitOn(ForwardSlashes(Drop(a, 3)), "/", <<>>),
                       {<<>>, <<".">>}, FALSE))

\* C7 as stated: translate_path_to_win after translate_path_to_unix gives
\* the original drive-letter path back, its separators turned into "/".
C7_AsStated ==
    fn = "round_trip" => output = ForwardSlashes(input)

\* C7, amended: for a drive-letter path L:\S with at least one segment other
\* than "." and no "/mnt/<letter>/" after a whitespace of S, the round trip
\* gives lowercase(L) + ":" + the segments of S other than ".", each led by "/":
\* the drive letter comes back in lower case and "." segments are gone.
C7_RoundTrip ==
    fn = "round_trip" =>
        LET suffix == NormalSuffix(input)
        IN  /\ suffix # <<>>
            /\ ~\E i, j \in 1..Len(suffix) :
                   i < j /\ suffix[i] \in Whitespace /\ OccursAt(suffix, j)
            => output = <<ToLowercase(input[1]), ":">> \o suffix

\* a path on drive D: with a space in its suffix made the round trip
C7_Witness ==
    /\ fn = "round_trip"
    /\ input[1] = "D"
    /\ Contains(input, " ")
    /\ Len(SegmentsOf(input)) = 3
    /\ output = <<"d", ":">> \o NormalSuffix(input)

----------------------------------------------------------------------------
(* shell_escape on its own *)

MaxEscapeLen == 3

EscapeChars == {"a", " ", "\n", "\""}

InitEscape ==
    /\ input \in SeqsUpTo(EscapeChars, MaxEscapeLen)
    /\ fs = {}
    /\ fn = "none"
    /\ output = <<>>
    /\ MainIdle

NextEscape == CallShellEscape

SpecEscape == InitEscape /\ [][NextEscape]_vars

\* every newline of s replaced by $'\n'
NewlinesReplaced(s) ==
    Concat([i \in 1..Len(s) |->
                IF s[i] = "\n" THEN <<"$", "'", "\n", "'">> ELSE <<s[i]>>])

\* C8: an argument with no space and no newline comes back unchanged; one
\* with a space comes back wrapped in double quotes; and every newline is
\* replaced by $'\n' whether or not the quotes were applied.
C8_AsStated ==
    fn = "shell_escape" =>
        /\ (~Contains(input, " ") /\ ~Contains(input, "\n")) => output = input
        /\ output = IF Contains(input, " ")
                    THEN <<"\"">> \o NewlinesReplaced(input) \o <<"\"">>
                    ELSE NewlinesReplaced(input)

----------------------------------------------------------------------------
(* translate_git_editor on its own *)

MaxEditorArgs == 2

EditorNames == { <<"e", "d">>, <<"C", ":", "\\", "t", "\\", "e", "d">> }

EditorExts == { <<>>, <<".", "e", "x", "e">> }

EditorQuotes == { <<>>, <<"\"">> }

EditorArgs == { <<>>, <<"-", "w">> }

\* the command token, then each trailing argument after a space
EditorValues ==
    { q \o name \o ext \o q \o Concat([i \in 1..Len(as) |-> <<" ">> \o as[i]]) :
        q \in EditorQuotes, name \in EditorNames, ext \in EditorExts,
        as \in SeqsUpTo(EditorArgs, MaxEditorArgs) }

EditorFsNames ==
    { <<"e", "d">>, <<"e", "d", ".", "E", "X", "E">>, <<"t">> }

InitEditor ==
    /\ input \in EditorValues
    /\ fs \in SUBSET EditorFsNames
    /\ fn = "none"
    /\ output = <<>>
    /\ MainIdle

NextEditor == CallTranslateGitEditor

SpecEditor == InitEditor /\ [][NextEditor]_vars

\* C9: for an editor value with a space whose command token resolves to no
\* existing executable under "", "CMD", "EXE", the result is the unquoted
\* command token, a single space, and the trailing text verbatim.
C9_AsStated ==
    fn = "translate_git_editor" /\ Contains(input, " ") =>
        LET token    == SubSeq(input, 1, IndexOf(input, " ") - 1)
            trailing == Drop(input, IndexOf(input, " "))
        IN  (\A i \in 1..3 : ~Exists(Candidate(Unquote(token), i), fs)) =>
                output = Unquote(token) \o <<" ">> \o trailing

----------------------------------------------------------------------------
(* The program *)

MaxArgs == 2

ArgTokens ==
    { Remote, RevParse,
      <<"r", "e", "m", "o", "t", "e", "s">>,
      <<"C", ":", "\\", "a">>,
      UncPath }

GitEditors ==
    { None,
      Some(<<"e", "d">>),
      Some(<<"e", "d", " ", "-", "w">>),
      Some(<<"\"", "e", "d", "\"", " ", "-", "w">>) }

MainFsNames == { <<"e", "d">> }

Init ==
    /\ args \in SeqsUpTo(ArgTokens, MaxArgs)
    /\ git_editor \in GitEditors
    /\ fs \in SUBSET MainFsNames
    /\ pc = "start"
    /\ git_args = <<>>
    /\ child_editor = None
    /\ translate_output = FALSE
    /\ child_stdio = "none"
    /\ child_out = <<>>
    /\ status = NoStatus
    /\ stdout = <<>>
    /\ exit_code = NoCode
    /\ fn = "none"
    /\ input = <<>>
    /\ output = <<>>

Next ==
    \/ TranslateArgs
    \/ SetupEditor
    \/ DecideTranslateOutput
    \/ SpawnPiped
    \/ SpawnInherit
    \/ SpawnFails
    \/ WaitFails
    \/ ChildExits
    \/ WriteOutput
    \/ WriteFails
    \/ ForwardExit

Spec == Init /\ [][Next]_vars

Terminated == pc \in {"done", "panicked"}

\* C5 as stated: whenever the subprocess was launched and ended with an
\* exit code, the wrapper ends with that same code, on both paths.
C5_AsStated ==
    Terminated /\ status.ended /\ status.code.some => exit_code = status.code

\* C5, amended: whenever the subprocess ended with an exit code the wrapper
\* goes on to end, and it ends with that same code on both paths unless, on
\* the capturing path, writing the rewritten output to its stdout fails (the
\* wrapper then panics).
C5_ExitCodeForwarded ==
    status.ended /\ status.code.some =>
        /\ pc = "done" => exit_code = status.code
        /\ pc = "panicked" => child_stdio = "piped" /\ exit_code = Code(PanicCode)
        /\ ~Terminated => ENABLED Next

\* both paths ended with the subprocess's code 128
C5_Witness ==
    /\ pc = "done"
    /\ status = Exited(128)
    /\ exit_code = Code(128)
    /\ child_stdio = "piped"
    /\ child_out # <<>>

\* s ends with t
EndsWith(s, t) == Len(s) >= Len(t) /\ SubSeq(s, Len(s) - Len(t) + 1, Len(s)) = t

\* C6: the subprocess's stdout is captured and rewritten by
\* translate_path_to_win exactly when some argument, at any position, equals
\* "rev-parse" or "remote" as given; otherwise the subprocess inherits the
\* wrapper's stdout and its output is not rewritten.
C6_CaptureExactlyForTranslatedCmds ==
    LET listed == \E i \in 1..Len(args) :
                      \/ args[i] = <<"r", "e", "v", "-", "p", "a", "r", "s", "e">>
                      \/ args[i] = <<"r", "e", "m", "o", "t", "e">>
    IN  /\ pc \in {"running", "exited", "forward", "done"} =>
               child_stdio = IF listed THEN "piped" ELSE "inherit"
        /\ pc \in {"forward", "done"} =>
               EndsWith(stdout, IF listed THEN TranslatePathToWin(child_out)
                                ELSE child_out)

\* "remote" in the second position, after a path argument, made the wrapper
\* capture and rewrite the output
C6_Witness ==
    /\ pc = "done"
    /\ Len(args) = 2
    /\ args[1] = <<"C", ":", "\\", "a">>
    /\ args[2] = Remote
    /\ child_stdio = "piped"
    /\ child_out = <<"/", "m", "n", "t", "/", "c", "/", "w", "\n">>
    /\ EndsWith(stdout, <<"c", ":", "/", "w", "\n">>)

\* C10: the only bytes on the wrapper's stdout are the subprocess's stdout
\* bytes, rewritten on the capturing path and unmodified otherwise; nothing
\* that runs before the subprocess is launched writes to stdout.
C10_AsStated ==
    \/ stdout = <<>>
    \/ child_stdio = "inherit" /\ stdout = child_out
    \/ child_stdio = "piped" /\ stdout = TranslatePathToWin(child_out)

====
